---- MODULE Spec2Model ----
(***************************************************************************)
(* Model of jupyter-book/preprocessing_visualization/                      *)
(* feature_selection.ipynb: the notebook's cells as the steps of a linear  *)
(* pipeline (read, hand over to R, rank by binomial deviance, export the   *)
(* deviance vector, select the top K and annotate, write).                 *)
(*                                                                         *)
(* Gene g of the model (1..n) is numpy index g-1.  A deviance score is a   *)
(* float in the notebook; only the order of the scores matters to          *)
(* argsort, so a score is modelled as a small natural number.              *)
(***************************************************************************)
EXTENDS Integers, Sequences, FiniteSets, TLC

\* ----------------------------------------------------------------- bounds
MaxGenes == 3
MaxScore == 2

\* The cells of the data set (obs axis) and the raw counts a gene has over
\* them: an all-zero gene and a gene that varies.
ObsNames == <<"c1", "c2">>
GeneColumns == {<<0, 0>>, <<3, 1>>}

\* ------------------------------------------------------ program constants
TopK == 4000
InFile == "s4d8_normalization.h5ad"
OutFile == "s4d8_feature_selection.h5ad"

\* The top-K parameter of a run: small values around the length of the gene
\* axis, and the notebook's own 4000.
KSet == (0..(MaxGenes + 1)) \cup {TopK}

VARIABLES pc, disk, remote, adata, r_adata, sce, binomial_deviance,
          order, idx, mask, topk

vars == <<pc, disk, remote, adata, r_adata, sce, binomial_deviance,
          order, idx, mask, topk>>

\* ----------------------------------------------------------------- helpers
Max(a, b) == IF a >= b THEN a ELSE b
Min(a, b) == IF a <= b THEN a ELSE b

\* An annotated matrix: X is cells x genes, var maps a column name to one
\* value per gene.
AnnDatas ==
    UNION { { [X |-> [c \in 1..Len(ObsNames) |-> [g \in 1..n |-> col[g][c]]],
               var_names |-> [g \in 1..n |-> g],
               var |-> [c \in {"gene_ids"} |-> [g \in 1..n |-> g]]] :
              col \in [1..n -> GeneColumns] } :
            n \in 0..MaxGenes }

\* No object bound to the name yet.
Unbound == [X |-> <<>>, var_names |-> <<>>, var |-> <<>>]

\* Variant of SetColumn: the assignment replaces the whole table by the one
\* column.
SetColumn_ReplaceFrame(var, name, values) == [c \in {name} |-> values]

\* df[name] = values: replaces the column when it exists, appends it
\* otherwise.
SetColumn(var, name, values) ==
    [c \in (DOMAIN var) \cup {name} |-> IF c = name THEN values ELSE var[c]]

\* Variant of ArgSorts: the indices in descending order of score.
ArgSorts_Descending(a) ==
    { p \in [1..Len(a) -> 1..Len(a)] :
        /\ \A i, j \in 1..Len(a) : i # j => p[i] # p[j]
        /\ \A i, j \in 1..Len(a) : i < j => a[p[i]] >= a[p[j]] }

\* Variant of ArgSorts: the indices in any order (no sort).
ArgSorts_Unsorted(a) ==
    { p \in [1..Len(a) -> 1..Len(a)] :
        \A i, j \in 1..Len(a) : i # j => p[i] # p[j] }

\* a.argsort() with the default kind: some permutation of the indices that
\* puts the scores in ascending order; the order of equal scores is not
\* specified by the default (quicksort) kind.
ArgSorts(a) ==
    { p \in [1..Len(a) -> 1..Len(a)] :
        /\ \A i, j \in 1..Len(a) : i # j => p[i] # p[j]
        /\ \A i, j \in 1..Len(a) : i < j => a[p[i]] <= a[p[j]] }

\* s[start:] of a Python sequence: a negative start counts from the end and
\* is clipped at the beginning, a start beyond the end gives the empty slice.
SliceFrom(s, start) ==
    LET n == Len(s)
        lo == IF start < 0 THEN Max(n + start, 0) ELSE Min(start, n)
    IN  SubSeq(s, lo + 1, n)

\* Variant of LastK: s[-(k-1):], a slice one short.
LastK_OffByOne(s, k) == SliceFrom(s, 1 - k)

\* Variant of LastK: s[k:], the sign of the start dropped.
LastK_SignSlip(s, k) == SliceFrom(s, k)

\* s[-k:]; for k = 0 the start is -0 = 0.
LastK(s, k) == SliceFrom(s, 0 - k)

\* Variant of MaskShape: adata.obs_names.shape, the length of the cell axis.
MaskShape_ObsAxis(a) == Len(a.X)

\* adata.var_names.shape: the length of the gene axis.
MaskShape(a) == Len(a.var_names)

\* np.zeros(shape, dtype=bool)
Zeros(n) == [g \in 1..n |-> FALSE]

\* mask[idx] = True
SetTrue(m, ix) == [g \in 1..Len(m) |-> m[g] \/ (\E j \in 1..Len(ix) : ix[j] = g)]

\* ------------------------------------------------------------------- Init
Init ==
    /\ pc = "read"
    /\ \E a \in AnnDatas, present \in BOOLEAN :
          /\ remote = a
          /\ disk = IF present THEN [f \in {InFile} |-> a] ELSE <<>>
    /\ topk \in KSet
    /\ adata = Unbound
    /\ r_adata = Unbound
    /\ sce = Unbound
    /\ binomial_deviance = <<>>
    /\ order = <<>>
    /\ idx = <<>>
    /\ mask = <<>>

\* ---------------------------------------------------------------- actions
\* adata = sc.read(filename=..., backup_url=...): the file is fetched from
\* the backup URL and stored under the file name when it is not on disk.
Read ==
    /\ pc = "read"
    /\ disk' = IF InFile \in DOMAIN disk THEN disk
               ELSE [f \in (DOMAIN disk) \cup {InFile} |->
                        IF f = InFile THEN remote ELSE disk[f]]
    /\ adata' = disk'[InFile]
    /\ pc' = "to_r"
    /\ UNCHANGED <<remote, r_adata, sce, binomial_deviance, order, idx, mask, topk>>

\* ro.globalenv["adata"] = adata: the R environment gets a converted copy.
ToR ==
    /\ pc = "to_r"
    /\ r_adata' = adata
    /\ pc' = "rank"
    /\ UNCHANGED <<disk, remote, adata, sce, binomial_deviance, order, idx, mask, topk>>

\* sce = devianceFeatureSelection(adata, assay="X"): the routine of the scry
\* package returns the R object with one deviance per gene added to its
\* rowData.  The statistic is computed outside this repository: any score
\* per gene is a possible outcome.
Rank ==
    /\ pc = "rank"
    /\ \E dev \in [1..Len(r_adata.var_names) -> 0..MaxScore] :
          sce' = [r_adata EXCEPT !.var = SetColumn(@, "binomial_deviance", dev)]
    /\ pc' = "export"
    /\ UNCHANGED <<disk, remote, adata, r_adata, binomial_deviance, order, idx, mask, topk>>

\* binomial_deviance = ro.r("rowData(sce)$binomial_deviance").T
Export ==
    /\ pc = "export"
    /\ binomial_deviance' = sce.var["binomial_deviance"]
    /\ pc' = "select"
    /\ UNCHANGED <<disk, remote, adata, r_adata, sce, order, idx, mask, topk>>

\* idx = binomial_deviance.argsort()[-k:]; mask = np.zeros(...); mask[idx] =
\* True; the two column assignments.
SelectAndAnnotate ==
    /\ pc = "select"
    /\ \E p \in ArgSorts(binomial_deviance) :
          /\ order' = p
          /\ idx' = LastK(p, topk)
    /\ mask' = SetTrue(Zeros(MaskShape(adata)), idx')
    /\ adata' = [adata EXCEPT !.var =
                    SetColumn(SetColumn(@, "highly_deviant", mask'),
                              "binomial_deviance", binomial_deviance)]
    /\ pc' = "write"
    /\ UNCHANGED <<disk, remote, r_adata, sce, binomial_deviance, topk>>

\* Variant of Write: the annotated structure is written over the input file.
Write_ToInput ==
    /\ pc = "write"
    /\ disk' = [disk EXCEPT ![InFile] = adata]
    /\ pc' = "done"
    /\ UNCHANGED <<remote, adata, r_adata, sce, binomial_deviance, order, idx, mask, topk>>

\* adata.write("s4d8_feature_selection.h5ad")
Write ==
    /\ pc = "write"
    /\ disk' = [f \in (DOMAIN disk) \cup {OutFile} |->
                   IF f = OutFile THEN adata ELSE disk[f]]
    /\ pc' = "done"
    /\ UNCHANGED <<remote, adata, r_adata, sce, binomial_deviance, order, idx, mask, topk>>

Next == Read \/ ToR \/ Rank \/ Export \/ SelectAndAnnotate \/ Write

Spec == Init /\ [][Next]_vars

\* ------------------------------------------------ vocabulary of the claims
\* The selection cell has run: idx, mask and the two columns are set.
Thresholded == pc \in {"write", "done"}

\* The output file exists.
Written == OutFile \in DOMAIN disk

NumGenes == Len(binomial_deviance)

\* The genes a mask selects.
Selected(m) == { g \in 1..Len(m) : m[g] }

\* The stable ascending argsort: equal scores stay in index order.
StableArgSort(a) ==
    CHOOSE p \in [1..Len(a) -> 1..Len(a)] :
        /\ \A i, j \in 1..Len(a) : i # j => p[i] # p[j]
        /\ \A i, j \in 1..Len(a) : i < j =>
              \/ a[p[i]] < a[p[j]]
              \/ (a[p[i]] = a[p[j]] /\ p[i] < p[j])

\* The mask the selection gives for scores a and parameter k when the sort
\* is stable.
StableMask(a, k) == SetTrue(Zeros(Len(a)), LastK(StableArgSort(a), k))

\* m and the stable mask of (a, k) select equally many genes and differ only
\* on genes whose score is the score at the cut-off.
SameUpToCutoffTies(m, a, k) ==
    LET st == StableMask(a, k)
        cut == LastK(StableArgSort(a), k)
    IN  /\ Len(m) = Len(st)
        /\ Cardinality(Selected(m)) = Cardinality(Selected(st))
        /\ \A g \in 1..Len(m) :
              m[g] # st[g] => (Len(cut) > 0 /\ a[g] = a[cut[1]])

C2_MaskIsTopByScore ==
    Thresholded =>
        /\ Len(mask) = Len(adata.var_names)
        /\ Len(mask) = NumGenes
        /\ \A g, h \in 1..Len(mask) :
              (mask[g] /\ ~mask[h]) => binomial_deviance[g] >= binomial_deviance[h]

C2_Witness ==
    /\ Thresholded
    /\ \E g, h \in 1..Len(mask) :
          mask[g] /\ ~mask[h] /\ binomial_deviance[g] > binomial_deviance[h]
    /\ \E g, h \in 1..Len(mask) :
          mask[g] /\ ~mask[h] /\ binomial_deviance[g] = binomial_deviance[h]

====
